---------------------------- MODULE Spec2Model ----------------------------
(***************************************************************************)
(* kompresor.py: a Huffman coder.  huffman_compress counts the symbols of  *)
(* its input, builds the code tree with a heapq priority queue, derives    *)
(* the code table, encodes and packs the input; huffman_decompress reads   *)
(* the stored frequency table back, rebuilds the tree and walks it bit by  *)
(* bit.  Strings of "0"/"1" characters are sequences over {0, 1}; a symbol *)
(* is the code point of a one-byte character; a dict is the sequence of    *)
(* its items in insertion order.                                           *)
(***************************************************************************)
EXTENDS Integers, Sequences, FiniteSets, TLC

VARIABLES
    pc,              \* the statement the running command is at
    command,         \* sys.argv[1]: "compress" or "decompress"
    data,            \* huffman_compress: the input file's characters
    frequency,       \* the frequency dict of the running command
    priority_queue,  \* build_huffman_tree's heap list
    merges,          \* history: iterations of build_huffman_tree's loop so far
    lastMerge,       \* history: the queue before the last iteration, and what it popped
    huffman_tree,    \* the root build_huffman_tree returned
    codes,           \* huffman_compress: build_codes' table
    encoded_data,    \* the bit string: encode_data's result / decode_data's argument
    stream,          \* history: the bit string decode_data was called with
    file,            \* the bytes of the compressed file
    padding,         \* decode_data: the padding count it read
    bitpos,          \* decode_data: bits of the loop consumed so far
    current_node,    \* decode_data: the walk's position
    decoded_data     \* decode_data: the symbols emitted so far

vars == <<pc, command, data, frequency, priority_queue, merges, lastMerge,
          huffman_tree, codes, encoded_data, stream, file, padding, bitpos,
          current_node, decoded_data>>

\* ------------------------------------------------------------- bounds
\* Distinct symbols of the input alphabet of the compress runs.
NumSyms == 3
\* Longest input of the compress runs.
MaxLen == 5
\* Most entries of a frequency table handed to build_huffman_tree directly.
MaxEntries == 5
\* Largest count in such a table.
MaxFreq == 3
\* Longest bit string after the header handed to decode_data directly.
MaxBits == 6
\* Largest header value handed to decode_data directly.
MaxPad == 8

\* The symbols of the compress runs: the characters of code points 1 .. NumSyms.
Alphabet == 1 .. NumSyms

\* ------------------------------------------------------------- HuffmanNode
\* Python's None.
None == [none |-> TRUE]

\* HuffmanNode(char, freq): left and right start as None.
HuffmanNode(char, freq) ==
    [char |-> char, freq |-> freq, left |-> None, right |-> None]

\* __lt__ with the comparison turned round: the queue yields the highest
\* frequency first.
LtReversed(self, other) == self.freq > other.freq

\* HuffmanNode.__lt__
Lt(self, other) == self.freq < other.freq

\* None in a char field (an internal node's char); no symbol has this value.
NoChar == 0

\* Truth value of node.char: None is false, a one-character string is true.
Truthy(char) == char # NoChar

\* ------------------------------------------------------------- heapq
\* heap[pos] and heap[pos] = item with Python's 0-based positions.
At(heap, pos) == heap[pos + 1]
SetAt(heap, pos, item) == [heap EXCEPT ![pos + 1] = item]

RECURSIVE SiftdownLoop(_, _, _, _)
SiftdownLoop(heap, startpos, pos, newitem) ==
    IF pos > startpos
    THEN LET parentpos == (pos - 1) \div 2
             parent == At(heap, parentpos)
         IN  IF Lt(newitem, parent)
             THEN SiftdownLoop(SetAt(heap, pos, parent), startpos, parentpos, newitem)
             ELSE SetAt(heap, pos, newitem)
    ELSE SetAt(heap, pos, newitem)

\* heapq._siftdown: move heap[pos] up towards startpos while it is smaller than its parent.
Siftdown(heap, startpos, pos) == SiftdownLoop(heap, startpos, pos, At(heap, pos))

RECURSIVE SiftupLoop(_, _, _)
SiftupLoop(heap, pos, childpos) ==
    IF childpos < Len(heap)
    THEN LET rightpos == childpos + 1
             c == IF rightpos < Len(heap) /\ ~Lt(At(heap, childpos), At(heap, rightpos))
                  THEN rightpos ELSE childpos
         IN  SiftupLoop(SetAt(heap, pos, At(heap, c)), c, 2 * c + 1)
    ELSE [heap |-> heap, pos |-> pos]

\* heapq._siftup: bubble the smaller child up to a leaf, then sift the item down from there.
Siftup(heap, pos) ==
    LET newitem == At(heap, pos)
        r == SiftupLoop(heap, pos, 2 * pos + 1)
    IN  Siftdown(SetAt(r.heap, r.pos, newitem), pos, r.pos)

RECURSIVE HeapifyFrom(_, _)
HeapifyFrom(x, i) == IF i < 0 THEN x ELSE HeapifyFrom(Siftup(x, i), i - 1)

\* heapq.heapify(x): for i in reversed(range(n // 2)): _siftup(x, i)
Heapify(x) == HeapifyFrom(x, (Len(x) \div 2) - 1)

\* heapq.heappop(heap): the smallest item and the heap without it.
Heappop(heap) ==
    LET lastelt == heap[Len(heap)]
        rest == SubSeq(heap, 1, Len(heap) - 1)
    IN  IF rest # <<>>
        THEN [item |-> rest[1], heap |-> Siftup(SetAt(rest, 0, lastelt), 0)]
        ELSE [item |-> lastelt, heap |-> rest]

\* The merged node appended to the list without restoring the heap order.
HeappushNoSift(heap, item) == Append(heap, item)

\* heapq.heappush(heap, item)
Heappush(heap, item) == Siftdown(Append(heap, item), 0, Len(heap))

\* ------------------------------------------------------------- build_frequency_dict
\* The position of char among the dict's items, 0 when it is no key.
RECURSIVE KeyIndex(_, _)
KeyIndex(dict, char) ==
    IF dict = <<>> THEN 0
    ELSE IF dict[Len(dict)][1] = char THEN Len(dict)
    ELSE KeyIndex(SubSeq(dict, 1, Len(dict) - 1), char)

\* d[key] = value on a dict held as its items in insertion order.
DictSet(dict, key, value) ==
    LET i == KeyIndex(dict, key)
    IN  IF i = 0 THEN Append(dict, <<key, value>>)
        ELSE [dict EXCEPT ![i] = <<key, value>>]

\* d[key] for a key of the dict.
DictGet(dict, key) == dict[KeyIndex(dict, key)][2]

\* frequency[char] = 1 in place of += 1: a repeated symbol is not counted again.
IncrementReset(dict, char) == DictSet(dict, char, 1)

\* frequency[char] += 1 on a defaultdict(int): a new key is appended with 0 first.
Increment(dict, char) ==
    LET i == KeyIndex(dict, char)
    IN  IF i = 0 THEN Append(dict, <<char, 0 + 1>>)
        ELSE [dict EXCEPT ![i] = <<char, dict[i][2] + 1>>]

RECURSIVE CountFrom(_, _, _)
CountFrom(dict, d, i) ==
    IF i > Len(d) THEN dict ELSE CountFrom(Increment(dict, d[i]), d, i + 1)

\* build_frequency_dict(data)
build_frequency_dict(d) == CountFrom(<<>>, d, 1)

\* ------------------------------------------------------------- build_huffman_tree
RECURSIVE LeafList(_)
\* [HuffmanNode(char, freq) for char, freq in frequency.items()]
LeafList(freq) ==
    IF freq = <<>> THEN <<>>
    ELSE Append(LeafList(SubSeq(freq, 1, Len(freq) - 1)),
                HuffmanNode(freq[Len(freq)][1], freq[Len(freq)][2]))

\* One iteration of the while loop: pop left, pop right, push the merged node.
MergeStep(queue) ==
    LET p1 == Heappop(queue)
        p2 == Heappop(p1.heap)
        left == p1.item
        right == p2.item
        merged == [char |-> NoChar, freq |-> left.freq + right.freq,
                   left |-> left, right |-> right]
    IN  [left |-> left, right |-> right, merged |-> merged,
         queue |-> Heappush(p2.heap, merged)]

RECURSIVE MergeLoop(_)
MergeLoop(queue) ==
    IF Len(queue) > 1 THEN MergeLoop(MergeStep(queue).queue) ELSE queue

\* build_huffman_tree(frequency) for a non-empty table (priority_queue[0] of an
\* empty list raises IndexError).
build_huffman_tree(freq) == MergeLoop(Heapify(LeafList(freq)))[1]

\* ------------------------------------------------------------- build_codes
RECURSIVE build_codes_helper_same_bit(_, _, _)
\* The helper with "0" appended on the right branch too.
build_codes_helper_same_bit(node, current_code, dict) ==
    IF node # None
    THEN LET d1 == IF Truthy(node.char) THEN DictSet(dict, node.char, current_code)
                   ELSE dict
             d2 == build_codes_helper_same_bit(node.left, Append(current_code, 0), d1)
         IN  build_codes_helper_same_bit(node.right, Append(current_code, 0), d2)
    ELSE dict

RECURSIVE build_codes_helper(_, _, _)
build_codes_helper(node, current_code, dict) ==
    IF node # None
    THEN LET d1 == IF Truthy(node.char) THEN DictSet(dict, node.char, current_code)
                   ELSE dict
             d2 == build_codes_helper(node.left, Append(current_code, 0), d1)
         IN  build_codes_helper(node.right, Append(current_code, 1), d2)
    ELSE dict

\* build_codes(root)
build_codes(root) == build_codes_helper(root, <<>>, <<>>)

\* ------------------------------------------------------------- encode_data
RECURSIVE Concat(_, _, _)
\* "".join(codes[char] for char in data), from position i on
Concat(d, dict, i) ==
    IF i > Len(d) THEN <<>> ELSE DictGet(dict, d[i]) \o Concat(d, dict, i + 1)

RECURSIVE Zeros(_)
\* "0" * n
Zeros(n) == IF n <= 0 THEN <<>> ELSE Append(Zeros(n - 1), 0)

RECURSIVE Bin(_)
\* The binary digits of n, most significant first, none for 0.
Bin(n) == IF n = 0 THEN <<>> ELSE Append(Bin(n \div 2), n % 2)

\* f"{n:08b}": the binary digits of n, zero-filled on the left to at least 8.
Format08b(n) ==
    LET digits == Bin(n)
    IN  IF Len(digits) >= 8 THEN digits ELSE Zeros(8 - Len(digits)) \o digits

\* The padding taken modulo 8: none when the bits already fill whole bytes.
PaddingMod8(n) == (8 - (n % 8)) % 8

\* The padding encode_data computes for a bit string of length n.
PaddingFor(n) == 8 - (n % 8)

\* encode_data(data, codes)
encode_data(d, dict) ==
    LET joined == Concat(d, dict, 1)
        pad == PaddingFor(Len(joined))
    IN  Format08b(pad) \o (joined \o Zeros(pad))

\* ------------------------------------------------------------- decode_data
RECURSIVE ParseBin(_)
\* int(s, 2) for a non-empty string of binary digits
ParseBin(s) ==
    IF s = <<>> THEN 0 ELSE 2 * ParseBin(SubSeq(s, 1, Len(s) - 1)) + s[Len(s)]

\* s[start:stop] for start >= 0 and any stop: a negative stop counts from the
\* end, and -0 is 0.
PySlice(s, start, stop) ==
    LET n == Len(s)
        hi == IF stop < 0 THEN (IF stop + n < 0 THEN 0 ELSE stop + n)
              ELSE (IF stop > n THEN n ELSE stop)
    IN  SubSeq(s, start + 1, hi)

\* encoded_data[:8]
Header(enc) == PySlice(enc, 0, 8)

\* encoded_data = encoded_data[8:-padding]
StripPadding(enc, pad) == PySlice(enc, 8, 0 - pad)

\* The walk with the branches exchanged: "0" goes right.
ChildSwapped(node, bit) == IF bit = 0 THEN node.right ELSE node.left

\* current_node.left if bit == "0" else current_node.right
Child(node, bit) == IF bit = 0 THEN node.left ELSE node.right

\* One iteration of decode_data's loop on a node that is not None: the walk's
\* next position and the decoded symbols.
DecodeStep(root, node, out) ==
    IF Truthy(node.char)
    THEN [node |-> root, out |-> Append(out, node.char)]
    ELSE [node |-> node, out |-> out]

RECURSIVE DecodeLoop(_, _, _, _, _)
DecodeLoop(root, bits, i, node, out) ==
    IF i > Len(bits) THEN [result |-> "ok", out |-> out, node |-> node]
    ELSE LET next == Child(node, bits[i])
         IN  IF next = None
             THEN [result |-> "AttributeError", out |-> out, node |-> next]
             ELSE LET s == DecodeStep(root, next, out)
                  IN  DecodeLoop(root, bits, i + 1, s.node, s.out)

\* decode_data(encoded_data, root): what it returns or raises, and where the
\* walk stood.
decode_data(enc, root) ==
    IF enc = <<>> THEN [result |-> "ValueError", out |-> <<>>, node |-> root]
    ELSE DecodeLoop(root, StripPadding(enc, ParseBin(Header(enc))), 1, root, <<>>)

\* ------------------------------------------------------------- the compressed file
RECURSIVE ToBytes(_, _)
\* n.to_bytes(width, 'big') for an n that fits
ToBytes(n, width) ==
    IF width = 0 THEN <<>> ELSE Append(ToBytes(n \div 256, width - 1), n % 256)

RECURSIVE FromBytes(_)
\* int.from_bytes(b, 'big')
FromBytes(b) ==
    IF b = <<>> THEN 0 ELSE 256 * FromBytes(SubSeq(b, 1, Len(b) - 1)) + b[Len(b)]

\* char.encode() of a one-byte (ASCII) character, and bytes.decode() of it
EncodeChar(char) == <<char>>
DecodeChar(b) == b[1]

RECURSIVE WriteItems(_, _)
\* for char, freq in frequency.items(): write char.encode(), freq.to_bytes(4, 'big')
WriteItems(freq, i) ==
    IF i > Len(freq) THEN <<>>
    ELSE EncodeChar(freq[i][1]) \o ToBytes(freq[i][2], 4) \o WriteItems(freq, i + 1)

RECURSIVE PackBits(_)
\* bytearray(int(encoded_data[i:i+8], 2) for i in range(0, len(encoded_data), 8))
PackBits(bits) ==
    IF bits = <<>> THEN <<>>
    ELSE <<ParseBin(PySlice(bits, 0, 8))>> \o PackBits(SubSeq(bits, 9, Len(bits)))

\* What huffman_compress writes to the output file.
FileBytes(freq, enc) == ToBytes(Len(freq), 2) \o WriteItems(freq, 1) \o PackBits(enc)

RECURSIVE ReadItemsReversed(_, _, _)
\* The records put into the dict last record first.
ReadItemsReversed(bytes, off, n) ==
    IF n = 0 THEN <<>>
    ELSE DictSet(ReadItemsReversed(bytes, off + 5, n - 1),
                 DecodeChar(SubSeq(bytes, off + 1, off + 1)),
                 FromBytes(SubSeq(bytes, off + 2, off + 5)))

RECURSIVE ReadItems(_, _, _)
\* {f.read(1).decode(): int.from_bytes(f.read(4), 'big') for _ in range(n)},
\* reading from byte offset off
ReadItems(bytes, off, n) ==
    IF n = 0 THEN <<>>
    ELSE LET rest == ReadItems(bytes, off, n - 1)
             at == off + 5 * (n - 1)
         IN  DictSet(rest, DecodeChar(SubSeq(bytes, at + 1, at + 1)),
                     FromBytes(SubSeq(bytes, at + 2, at + 5)))

\* The frequency dict huffman_decompress reads from the file.
ReadFrequency(bytes) == ReadItems(bytes, 2, FromBytes(SubSeq(bytes, 1, 2)))

RECURSIVE UnpackBits(_, _)
\* "".join(f"{byte:08b}" for each remaining byte), from position i on
UnpackBits(bytes, i) ==
    IF i > Len(bytes) THEN <<>> ELSE Format08b(bytes[i]) \o UnpackBits(bytes, i + 1)

\* The bit string huffman_decompress reads after the frequency table.
ReadEncoded(bytes) == UnpackBits(bytes, 2 + 5 * FromBytes(SubSeq(bytes, 1, 2)) + 1)

\* ------------------------------------------------------------- the commands
\* The value of a variable no statement has assigned yet.
NoMerge == [queue |-> <<>>, left |-> None, right |-> None, merged |-> None]

\* huffman_compress, line 78: frequency = build_frequency_dict(data)
CountSymbols ==
    /\ pc = "compress"
    /\ frequency' = build_frequency_dict(data)
    /\ pc' = "build_tree"
    /\ UNCHANGED <<stream, command, data, priority_queue, merges, lastMerge, huffman_tree,
                   codes, encoded_data, file, padding, bitpos, current_node,
                   decoded_data>>

\* build_huffman_tree: the leaf list and heapify
HeapifyQueue ==
    /\ pc = "build_tree"
    /\ priority_queue' = Heapify(LeafList(frequency))
    /\ merges' = 0
    /\ lastMerge' = NoMerge
    /\ pc' = "merge_loop"
    /\ UNCHANGED <<stream, command, data, frequency, huffman_tree, codes, encoded_data,
                   file, padding, bitpos, current_node, decoded_data>>

\* build_huffman_tree: one iteration of while len(priority_queue) > 1
Merge ==
    /\ pc = "merge_loop"
    /\ Len(priority_queue) > 1
    /\ LET m == MergeStep(priority_queue)
       IN  /\ priority_queue' = m.queue
           /\ lastMerge' = [queue |-> priority_queue, left |-> m.left,
                            right |-> m.right, merged |-> m.merged]
    /\ merges' = merges + 1
    /\ UNCHANGED <<stream, pc, command, data, frequency, huffman_tree, codes,
                   encoded_data, file, padding, bitpos, current_node,
                   decoded_data>>

\* build_huffman_tree: return priority_queue[0], back in the calling command
ReturnRoot ==
    /\ pc = "merge_loop"
    /\ Len(priority_queue) = 1
    /\ huffman_tree' = At(priority_queue, 0)
    /\ pc' = IF command = "compress" THEN "build_codes" ELSE "decode"
    /\ UNCHANGED <<stream, command, data, frequency, priority_queue, merges, lastMerge,
                   codes, encoded_data, file, padding, bitpos, current_node,
                   decoded_data>>

\* build_huffman_tree of an empty table: priority_queue[0] raises IndexError
RaiseIndexError ==
    /\ pc = "merge_loop"
    /\ Len(priority_queue) = 0
    /\ pc' = "IndexError"
    /\ UNCHANGED <<stream, command, data, frequency, priority_queue, merges, lastMerge,
                   huffman_tree, codes, encoded_data, file, padding, bitpos,
                   current_node, decoded_data>>

\* huffman_compress, line 80: codes = build_codes(huffman_tree)
BuildCodes ==
    /\ pc = "build_codes"
    /\ codes' = build_codes(huffman_tree)
    /\ pc' = "encode"
    /\ UNCHANGED <<stream, command, data, frequency, priority_queue, merges, lastMerge,
                   huffman_tree, encoded_data, file, padding, bitpos,
                   current_node, decoded_data>>

\* huffman_compress, line 81: encoded_data = encode_data(data, codes)
EncodeData ==
    /\ pc = "encode"
    /\ encoded_data' = encode_data(data, codes)
    /\ pc' = "write"
    /\ UNCHANGED <<stream, command, data, frequency, priority_queue, merges, lastMerge,
                   huffman_tree, codes, file, padding, bitpos, current_node,
                   decoded_data>>

\* huffman_compress, lines 84-90: the output file
WriteFile ==
    /\ pc = "write"
    /\ file' = FileBytes(frequency, encoded_data)
    /\ pc' = "written"
    /\ UNCHANGED <<stream, command, data, frequency, priority_queue, merges, lastMerge,
                   huffman_tree, codes, encoded_data, padding, bitpos,
                   current_node, decoded_data>>

\* huffman_decompress on the file huffman_compress wrote, lines 97-101: the
\* frequency table and the bit string (the tree is built between the two reads).
ReadFile ==
    /\ pc = "written"
    /\ command' = "decompress"
    /\ frequency' = ReadFrequency(file)
    /\ encoded_data' = ReadEncoded(file)
    /\ pc' = "build_tree"
    /\ UNCHANGED <<stream, data, priority_queue, merges, lastMerge, huffman_tree, codes,
                   file, padding, bitpos, current_node, decoded_data>>

\* decode_data, lines 57-61
DecodeStart ==
    /\ pc = "decode"
    /\ encoded_data # <<>>
    /\ padding' = ParseBin(Header(encoded_data))
    /\ encoded_data' = StripPadding(encoded_data, padding')
    /\ stream' = encoded_data
    /\ decoded_data' = <<>>
    /\ current_node' = huffman_tree
    /\ bitpos' = 0
    /\ pc' = "decode_loop"
    /\ UNCHANGED <<command, data, frequency, priority_queue, merges, lastMerge,
                   huffman_tree, codes, file>>

\* decode_data, line 57 on an empty string: int("", 2) raises ValueError
RaiseValueError ==
    /\ pc = "decode"
    /\ encoded_data = <<>>
    /\ pc' = "ValueError"
    /\ UNCHANGED <<stream, command, data, frequency, priority_queue, merges, lastMerge,
                   huffman_tree, codes, encoded_data, file, padding, bitpos,
                   current_node, decoded_data>>

\* decode_data, lines 62-66: one bit
DecodeBit ==
    /\ pc = "decode_loop"
    /\ bitpos < Len(encoded_data)
    /\ Child(current_node, At(encoded_data, bitpos)) # None
    /\ LET s == DecodeStep(huffman_tree,
                           Child(current_node, At(encoded_data, bitpos)),
                           decoded_data)
       IN  /\ current_node' = s.node
           /\ decoded_data' = s.out
    /\ bitpos' = bitpos + 1
    /\ UNCHANGED <<stream, pc, command, data, frequency, priority_queue, merges,
                   lastMerge, huffman_tree, codes, encoded_data, file, padding>>

\* decode_data, lines 63-64 on a leaf: its child is None, and None.char raises
\* AttributeError
RaiseAttributeError ==
    /\ pc = "decode_loop"
    /\ bitpos < Len(encoded_data)
    /\ Child(current_node, At(encoded_data, bitpos)) = None
    /\ current_node' = None
    /\ pc' = "AttributeError"
    /\ UNCHANGED <<stream, command, data, frequency, priority_queue, merges, lastMerge,
                   huffman_tree, codes, encoded_data, file, padding, bitpos,
                   decoded_data>>

\* decode_data, line 68: the loop is over, return "".join(decoded_data)
DecodeReturn ==
    /\ pc = "decode_loop"
    /\ bitpos = Len(encoded_data)
    /\ pc' = "done"
    /\ UNCHANGED <<stream, command, data, frequency, priority_queue, merges, lastMerge,
                   huffman_tree, codes, encoded_data, file, padding, bitpos,
                   current_node, decoded_data>>

\* ------------------------------------------------------------- specifications
RECURSIVE SeqsOfLen(_, _)
\* All sequences over S of length n.
SeqsOfLen(S, n) ==
    IF n = 0 THEN {<<>>} ELSE {Append(s, x) : s \in SeqsOfLen(S, n - 1), x \in S}

\* All sequences over S of length 0 .. n.
SeqsUpTo(S, n) == UNION {SeqsOfLen(S, k) : k \in 0 .. n}

Idle ==
    /\ priority_queue = <<>>
    /\ merges = 0
    /\ lastMerge = NoMerge
    /\ codes = <<>>
    /\ stream = <<>>
    /\ file = <<>>
    /\ padding = 0
    /\ bitpos = 0
    /\ current_node = None
    /\ decoded_data = <<>>

\* compress of any input over the alphabet, then decompress of the file written.
Init ==
    /\ pc = "compress"
    /\ command = "compress"
    /\ data \in SeqsUpTo(Alphabet, MaxLen)
    /\ frequency = <<>>
    /\ huffman_tree = None
    /\ encoded_data = <<>>
    /\ Idle

Next ==
    \/ CountSymbols
    \/ HeapifyQueue
    \/ Merge
    \/ ReturnRoot
    \/ RaiseIndexError
    \/ BuildCodes
    \/ EncodeData
    \/ WriteFile
    \/ ReadFile
    \/ DecodeStart
    \/ DecodeBit
    \/ DecodeReturn

Spec == Init /\ [][Next]_vars

RECURSIVE TablesOfLen(_)
\* The frequency tables of n entries with counts 1 .. MaxFreq, the keys being
\* the characters 1, 2, ... in insertion order.
TablesOfLen(n) ==
    IF n = 0 THEN {<<>>}
    ELSE {Append(t, <<n, f>>) : t \in TablesOfLen(n - 1), f \in 1 .. MaxFreq}

\* The frequency tables of 1 .. MaxEntries entries.
Tables == UNION {TablesOfLen(n) : n \in 1 .. MaxEntries}

\* build_huffman_tree and build_codes on any such table.
InitTree ==
    /\ pc = "build_tree"
    /\ command = "compress"
    /\ data = <<>>
    /\ frequency \in Tables
    /\ huffman_tree = None
    /\ encoded_data = <<>>
    /\ Idle

NextTree ==
    \/ HeapifyQueue
    \/ Merge
    \/ ReturnRoot
    \/ BuildCodes

SpecTree == InitTree /\ [][NextTree]_vars

\* The tables whose trees decode_data is run on: the three-symbol example
\* with counts 5, 3 and 2, a two-symbol table and a one-symbol table.
DecodeTables ==
    { <<<<1, 5>>, <<2, 3>>, <<3, 2>>>>,
      <<<<1, 1>>, <<2, 1>>>>,
      <<<<1, 3>>>> }

\* The bit strings decode_data is run on: nothing at all, or a header byte
\* followed by any bits.
Streams ==
    {<<>>} \cup {Format08b(p) \o b : p \in 0 .. MaxPad, b \in SeqsUpTo({0, 1}, MaxBits)}

\* decode_data on any such bit string, with the tree of one of the tables.
InitDecode ==
    /\ pc = "decode"
    /\ command = "decompress"
    /\ data = <<>>
    /\ frequency \in DecodeTables
    /\ huffman_tree = build_huffman_tree(frequency)
    /\ encoded_data \in Streams
    /\ Idle

NextDecode ==
    \/ DecodeStart
    \/ RaiseValueError
    \/ DecodeBit
    \/ RaiseAttributeError
    \/ DecodeReturn

SpecDecode == InitDecode /\ [][NextDecode]_vars

\* ------------------------------------------------------------- properties
\* The elements of a sequence.
Range(s) == {s[i] : i \in DOMAIN s}

\* Occurrences of x in s.
Occurrences(s, x) == Cardinality({i \in DOMAIN s : s[i] = x})

RECURSIVE SumCounts(_)
\* The sum of the counts of a frequency table.
SumCounts(freq) ==
    IF freq = <<>> THEN 0
    ELSE SumCounts(SubSeq(freq, 1, Len(freq) - 1)) + freq[Len(freq)][2]

\* The keys of a dict.
Keys(dict) == {dict[i][1] : i \in DOMAIN dict}

\* s is a prefix of t (s = t included).
IsPrefix(s, t) == Len(s) <= Len(t) /\ SubSeq(t, 1, Len(s)) = s

\* The compress run has executed build_frequency_dict.
Counted == command = "compress" /\ pc # "compress"

\* The compress run has executed encode_data and still holds its tree and codes.
Encoded == command = "compress" /\ pc \in {"write", "written"}

\* C7. Frequency conservation: the table build_frequency_dict returns for the
\* input has counts that sum to the input's length, has exactly the input's
\* distinct symbols as keys, each once, every count being the symbol's number of
\* occurrences and so at least 1; the empty input yields the empty table.
C7_FrequencyConservation ==
    Counted =>
        /\ SumCounts(frequency) = Len(data)
        /\ Keys(frequency) = Range(data)
        /\ Len(frequency) = Cardinality(Range(data))
        /\ \A i \in DOMAIN frequency :
              /\ frequency[i][2] >= 1
              /\ frequency[i][2] = Occurrences(data, frequency[i][1])
        /\ (data = <<>> => frequency = <<>>)

\* A table was counted from an input in which a symbol comes back after another.
C7_Witness ==
    /\ Counted
    /\ Len(frequency) >= 2
    /\ \E i \in DOMAIN frequency : frequency[i][2] >= 2
    /\ Len(data) >= 4

\* C1. Round trip: for an input with at least two distinct symbols, decode_data
\* of encode_data's bit string with the tree the codes came from returns the
\* input; and so does the decompress run on the file written.
C1_RoundTrip ==
    Cardinality(Range(data)) >= 2 =>
        /\ Encoded =>
              LET r == decode_data(encoded_data, huffman_tree)
              IN  r.result = "ok" /\ r.out = data
        /\ pc = "done" => decoded_data = data

\* A decompress run returned an input of three distinct symbols whose code bits
\* fill whole bytes.
C1_Witness ==
    /\ pc = "done"
    /\ Cardinality(Range(data)) >= 3
    /\ padding = 8
    /\ decoded_data = data

\* C2. One distinct symbol: the symbol's code has at least one bit, and
\* decode_data of encode_data's bit string returns the input.
C2_SingleSymbol ==
    (Encoded /\ Cardinality(Range(data)) = 1) =>
        /\ Len(DictGet(codes, data[1])) >= 1
        /\ decode_data(encoded_data, huffman_tree).out = data

RECURSIVE CodeBits(_, _, _)
\* The summed length of the codes of the first k symbols of d.
CodeBits(d, dict, k) ==
    IF k = 0 THEN 0 ELSE CodeBits(d, dict, k - 1) + Len(DictGet(dict, d[k]))

\* encode_data's result is a header holding p, then each symbol's code in input
\* order, then exactly p zero bits, a whole number of bytes in all.
Framed(p) ==
    LET total == CodeBits(data, codes, Len(data))
    IN  /\ Len(encoded_data) >= 8
        /\ ParseBin(SubSeq(encoded_data, 1, 8)) = p
        /\ Len(encoded_data) = 8 + total + p
        /\ \A k \in DOMAIN data :
              SubSeq(encoded_data, 8 + CodeBits(data, codes, k - 1) + 1,
                     8 + CodeBits(data, codes, k)) = DictGet(codes, data[k])
        /\ \A i \in (8 + total + 1) .. Len(encoded_data) : encoded_data[i] = 0
        /\ Len(encoded_data) % 8 = 0

\* C6 as stated, on inputs with at least two distinct symbols: the header holds
\* p = (8 - totalBits mod 8) mod 8, a value in 0..7, followed by the codes and
\* p zero bits.
C6_PaddingMod8 ==
    (Encoded /\ Cardinality(Range(data)) >= 2) =>
        LET p == (8 - (CodeBits(data, codes, Len(data)) % 8)) % 8
        IN  p \in 0 .. 7 /\ Framed(p)

\* C6, amended. The header holds p = 8 - (totalBits mod 8), a value in 1..8 (8
\* when the code bits already fill whole bytes); it is followed by the codes in
\* input order and then exactly p zero bits, a whole number of bytes in all.
C6_PaddingOneToEight ==
    Encoded =>
        LET p == 8 - (CodeBits(data, codes, Len(data)) % 8)
        IN  p \in 1 .. 8 /\ Framed(p)

\* An input of three distinct symbols was encoded into code bits that fill one
\* byte exactly.
C6_Witness ==
    /\ Encoded
    /\ Cardinality(Range(data)) >= 3
    /\ CodeBits(data, codes, Len(data)) = 8
    /\ Len(encoded_data) = 24

\* The decompress run has rebuilt the tree from the table it read.
Rebuilt == command = "decompress" /\ pc \in {"decode", "decode_loop", "done"}

\* C9. Tree agreement: for a table of at least two entries, the tree the
\* decompress run builds from the entries it reads from the file gives every
\* symbol the code the compress run's tree gave it.
C9_TreeAgreement ==
    (Rebuilt /\ Cardinality(Range(data)) >= 2) =>
        /\ Keys(frequency) = Range(data)
        /\ Keys(build_codes(huffman_tree)) = Keys(codes)
        /\ \A c \in Keys(codes) :
              DictGet(build_codes(huffman_tree), c) = DictGet(codes, c)

\* A tree was rebuilt from a stored table of three entries, two of equal count.
C9_Witness ==
    /\ Rebuilt
    /\ Len(frequency) >= 3
    /\ \E i, j \in DOMAIN frequency : i # j /\ frequency[i][2] = frequency[j][2]

\* build_huffman_tree has returned the root.
Built == command = "compress" /\ pc \in {"build_codes", "encode"}

\* C3. Prefix-freedom: in the table build_codes returns for the tree of a
\* frequency table, no symbol's code is a prefix of another symbol's code.
C3_PrefixFree ==
    pc = "encode" =>
        \A a, b \in Keys(codes) :
            a # b => ~IsPrefix(DictGet(codes, a), DictGet(codes, b))

\* A code table of at least four symbols with codes of different lengths.
C3_Witness ==
    /\ pc = "encode"
    /\ Cardinality(Keys(codes)) >= 4
    /\ \E a, b \in Keys(codes) : Len(DictGet(codes, a)) < Len(DictGet(codes, b))

\* A node with no children.
IsLeaf(node) == node.left = None /\ node.right = None

RECURSIVE WeightedPathLength(_, _)
\* The sum over the leaves under node of depth x frequency, node being at depth.
WeightedPathLength(node, depth) ==
    IF IsLeaf(node) THEN depth * node.freq
    ELSE WeightedPathLength(node.left, depth + 1)
         + WeightedPathLength(node.right, depth + 1)

\* The least number of a non-empty finite set of numbers.
Least(S) == CHOOSE x \in S : \A y \in S : x <= y

RECURSIVE Weight(_, _)
\* The sum of the counts of the entries S of a table.
Weight(freq, S) ==
    IF S = {} THEN 0 ELSE freq[Least(S)][2] + Weight(freq, S \ {Least(S)})

RECURSIVE MinWeightedPathLength(_, _)
\* The least weighted path length of the binary trees whose leaves are the
\* entries S of the table, by trying every way to split S between the root's
\* two subtrees: each leaf goes one level down, which adds Weight(S).
MinWeightedPathLength(freq, S) ==
    IF Cardinality(S) = 1 THEN 0
    ELSE LET m == Least(S)
             T == S \ {m}
         IN  Weight(freq, S)
             + Least({MinWeightedPathLength(freq, A \cup {m})
                      + MinWeightedPathLength(freq, T \ A) : A \in SUBSET T \ {T}})

\* C4. Optimality: the tree build_huffman_tree returns has the least weighted
\* path length of all binary trees over the table's entries.
C4_Optimal ==
    Built =>
        WeightedPathLength(huffman_tree, 0)
            = MinWeightedPathLength(frequency, DOMAIN frequency)

\* A tree over a full table with equal counts in it, and leaves at different depths.
C4_Witness ==
    /\ Built
    /\ Len(frequency) = MaxEntries
    /\ \E i, j \in DOMAIN frequency : i # j /\ frequency[i][2] = frequency[j][2]
    /\ WeightedPathLength(huffman_tree, 0) > 2 * SumCounts(frequency)

RECURSIVE Leaves(_)
\* The leaves under node, left to right.
Leaves(node) ==
    IF IsLeaf(node) THEN <<node>> ELSE Leaves(node.left) \o Leaves(node.right)

\* The last iteration popped two lowest-frequency nodes of the queue it found,
\* left first, and pushed one node whose frequency is their sum and whose
\* children they are; every other node stayed.
MergedTwoLowest ==
    LET before == lastMerge.queue
        left == lastMerge.left
        right == lastMerge.right
        merged == lastMerge.merged
        nodes == Range(before) \cup Range(priority_queue)
        change(x) == (IF x = merged THEN 1 ELSE 0)
                     - (IF x = left THEN 1 ELSE 0) - (IF x = right THEN 1 ELSE 0)
    IN  /\ \E i, j \in DOMAIN before :
              /\ i # j
              /\ before[i] = left
              /\ before[j] = right
              /\ \A k \in DOMAIN before : left.freq <= before[k].freq
              /\ \A k \in DOMAIN before \ {i} : right.freq <= before[k].freq
        /\ merged.freq = left.freq + right.freq
        /\ merged.left = left
        /\ merged.right = right
        /\ ~Truthy(merged.char)
        /\ Len(priority_queue) = Len(before) - 1
        /\ \A x \in nodes :
              Occurrences(priority_queue, x) = Occurrences(before, x) + change(x)

\* C10. Merge loop: on a table of N >= 1 entries the loop ends after exactly
\* N - 1 iterations (each leaves one node fewer in the queue); each iteration
\* removes the two lowest-frequency nodes and inserts one node whose frequency
\* is their sum and whose left and right children they are; the root returned
\* has the sum of all counts as frequency and exactly N leaves, one per table
\* entry, with the entry's symbol and count.
C10_MergeLoop ==
    /\ pc = "merge_loop" =>
          /\ Len(priority_queue) = Len(frequency) - merges
          /\ merges <= Len(frequency) - 1
    /\ (pc = "merge_loop" /\ merges > 0) => MergedTwoLowest
    /\ Built =>
          /\ merges = Len(frequency) - 1
          /\ huffman_tree.freq = SumCounts(frequency)
          /\ Len(Leaves(huffman_tree)) = Len(frequency)
          /\ \A i \in DOMAIN frequency :
                Occurrences(Leaves(huffman_tree),
                            HuffmanNode(frequency[i][1], frequency[i][2])) = 1

\* The loop ended after four iterations, the last of which merged two internal nodes.
C10_Witness ==
    /\ Built
    /\ merges = 4
    /\ ~IsLeaf(lastMerge.left)
    /\ ~IsLeaf(lastMerge.right)

\* C5. Corruption detection: decode_data does not return normally when the
\* last bit it consumed left the walk at an internal node (it returns only
\* with the walk back at the root).
C5_CorruptionDetected ==
    pc = "done" => current_node = huffman_tree

\* C8. Padding strip: with a header holding p in 0..7, the bits decode_data
\* walks are exactly those after the 8 header bits and before the last p bits
\* of the string it was called with.
C8_StripExact ==
    (pc \in {"decode_loop", "done", "AttributeError"} /\ padding \in 0 .. 7) =>
        encoded_data = SubSeq(stream, 9, Len(stream) - padding)

=============================================================================
